---- MODULE Spec2Model ----
(***************************************************************************)
(* Watch-page playback state machine of MomentCast                         *)
(* (src/watch-page/script.js).                                             *)
(*                                                                         *)
(* Time is counted in whole seconds.  A timestamp that may be absent is a  *)
(* sequence of length 0 or 1.  An iframe src is the embed URL, a tuple     *)
(* built from the asset id, or the empty tuple when nothing was assigned.  *)
(* The hosting document (index.html) is not part of the sources: the       *)
(* elements script.js looks up by id are taken to exist until script.js    *)
(* itself removes them, and whether the document provides a global named   *)
(* `recordings` is an unknown of the environment fixed at load time.       *)
(***************************************************************************)
EXTENDS Integers, Sequences, FiniteSets, Bags, TLC

\* ------------------------------------------------------------------ bounds
MaxNow == 1
MaxOutstanding == 2
MaxElapsed == 121

\* ------------------------------------------------------- program constants
TwoHours == 7200
TenMinutes == 600
PollLive == 120
PollWaitingForResume == 30
PollOther == 60
NearEnd == 1
StuckSeconds == 10
StuckRemaining == 5
NoDurationTimeout == 120

\* ------------------------------------------------------------ input domain
NoMode == "null"
NoSrc == <<>>

Uids == {"A", "B"}
CreatedOf(u) == IF u = "A" THEN 1 ELSE 2
DurationOf(u) == IF u = "A" THEN 3 ELSE 0

Recording(u, r) == [uid |-> u, created |-> CreatedOf(u), duration |-> DurationOf(u), readyToStream |-> r]

\* Recording lists as the API may return them: newest first, any readiness.
RecordingLists ==
  {<<>>}
  \cup {<<Recording("A", TRUE)>>}
  \cup {<<Recording("B", TRUE), Recording("A", TRUE)>>}

NoEvent ==
  [status |-> "undefined", stream_state |-> "undefined", scheduled_date |-> 0,
   live_input_id |-> <<>>, last_stream_activity |-> <<>>, recordings |-> <<>>,
   limitExceeded |-> FALSE]

Statuses == {"scheduled", "ready", "live", "ended"}
StreamStates == {"active", "disconnected"}
SchedDates == {1}
ActivityAges == {0}
LiveInputs == {<<"in1">>}

\* Every combination of field values, for a response produced at time t.
AllSnapshotsAt(t) ==
  [status : Statuses, stream_state : StreamStates, scheduled_date : SchedDates,
   live_input_id : LiveInputs,
   last_stream_activity : {<<0 - a>> : a \in ActivityAges},
   recordings : RecordingLists, limitExceeded : BOOLEAN]

\* The snapshots a fetch completing at time t may deliver: those the event
\* passes through from scheduling, over the broadcast and its pauses, to
\* the replay, with the viewer-hour cap reached while something is shown.
SnapshotsAt(t) ==
  {s \in AllSnapshotsAt(t) :
     /\ (s.stream_state = "active") = (s.status = "live")
     /\ s.status \in {"scheduled", "live"} => s.recordings = <<>>
     /\ s.status = "ready" => Len(s.recordings) <= 1
     /\ s.last_stream_activity = <<0>>
     /\ s.limitExceeded => Len(s.recordings) = 2}

\* ------------------------------------------------------------ pure helpers
EmbedUrl(id) == <<"cloudflarestream.com", id, "iframe?autoplay=true&muted=false">>

RECURSIVE ReadyRecordings(_)
ReadyRecordings(recs) ==
  IF recs = <<>> THEN <<>>
  ELSE IF Head(recs).readyToStream = TRUE
    THEN <<Head(recs)>> \o ReadyRecordings(Tail(recs))
    ELSE ReadyRecordings(Tail(recs))

\* The two sort comparators: negative when a sorts before b.
OldestFirst(a, b) == a.created - b.created
NewestFirst(a, b) == b.created - a.created
Compare(a, b, newest) == IF newest THEN NewestFirst(a, b) ELSE OldestFirst(a, b)

\* Array.prototype.sort is stable: an element is inserted behind the
\* elements it does not sort before.
RECURSIVE InsertSorted(_, _, _)
InsertSorted(x, s, newest) ==
  IF s = <<>> THEN <<x>>
  ELSE IF Compare(x, Head(s), newest) < 0 THEN <<x>> \o s
  ELSE <<Head(s)>> \o InsertSorted(x, Tail(s), newest)

RECURSIVE SortRecordings(_, _)
SortRecordings(s, newest) ==
  IF s = <<>> THEN <<>>
  ELSE InsertSorted(s[Len(s)], SortRecordings(SubSeq(s, 1, Len(s) - 1), newest), newest)

hasRecordings(e) == Len(e.recordings) > 0
isLive(e) == e.status = "live" /\ e.stream_state = "active"

\* Variant: every listed recording is counted, finalized or not.
decisionTree_CountAll(e, t) ==
  LET present == e.last_stream_activity # <<>>
      timeSinceActivity == IF present THEN t - e.last_stream_activity[1] ELSE 0
      recentActivity == present /\ timeSinceActivity < TwoHours
  IN  IF isLive(e) THEN "LIVE"
      ELSE IF e.status = "ended"
        THEN (IF hasRecordings(e) THEN "SEQUENTIAL" ELSE "ENDED")
      ELSE IF e.status = "ready"
        THEN IF ~hasRecordings(e) /\ recentActivity /\ timeSinceActivity < TenMinutes
               THEN "PROCESSING"
             ELSE IF ~hasRecordings(e) THEN "WAITING"
             ELSE IF recentActivity
               THEN (IF Len(e.recordings) > 1 THEN "SEQUENTIAL"
                     ELSE "LAST_RECORDING")
             ELSE "SEQUENTIAL"
      ELSE IF t < e.scheduled_date THEN "COUNTDOWN"
      ELSE "WAITING"

\* Variant: the countdown is still chosen at the scheduled instant.
decisionTree_InclusiveSchedule(e, t) ==
  LET present == e.last_stream_activity # <<>>
      timeSinceActivity == IF present THEN t - e.last_stream_activity[1] ELSE 0
      recentActivity == present /\ timeSinceActivity < TwoHours
  IN  IF isLive(e) THEN "LIVE"
      ELSE IF e.status = "ended"
        THEN (IF hasRecordings(e) THEN "SEQUENTIAL" ELSE "ENDED")
      ELSE IF e.status = "ready"
        THEN IF ~hasRecordings(e) /\ recentActivity /\ timeSinceActivity < TenMinutes
               THEN "PROCESSING"
             ELSE IF ~hasRecordings(e) THEN "WAITING"
             ELSE IF recentActivity
               THEN (IF Len(ReadyRecordings(e.recordings)) > 1 THEN "SEQUENTIAL"
                     ELSE "LAST_RECORDING")
             ELSE "SEQUENTIAL"
      ELSE IF t <= e.scheduled_date THEN "COUNTDOWN"
      ELSE "WAITING"

\* Lines 81-139: the decision tree on a snapshot that is present.
decisionTree(e, t) ==
  LET present == e.last_stream_activity # <<>>
      timeSinceActivity == IF present THEN t - e.last_stream_activity[1] ELSE 0
      recentActivity == present /\ timeSinceActivity < TwoHours
  IN  IF isLive(e) THEN "LIVE"
      ELSE IF e.status = "ended"
        THEN (IF hasRecordings(e) THEN "SEQUENTIAL" ELSE "ENDED")
      ELSE IF e.status = "ready"
        THEN IF ~hasRecordings(e) /\ recentActivity /\ timeSinceActivity < TenMinutes
               THEN "PROCESSING"
             ELSE IF ~hasRecordings(e) THEN "WAITING"
             ELSE IF recentActivity
               THEN (IF Len(ReadyRecordings(e.recordings)) > 1 THEN "SEQUENTIAL"
                     ELSE "LAST_RECORDING")
             ELSE "SEQUENTIAL"
      ELSE IF t < e.scheduled_date THEN "COUNTDOWN"
      ELSE "WAITING"

\* Variant: the schedule is consulted before the stream state.
determinePlaybackMode_ScheduleFirst(e, t) ==
  IF e = NoEvent THEN "WAITING"
  ELSE IF t < e.scheduled_date THEN "COUNTDOWN"
  ELSE decisionTree(e, t)

determinePlaybackMode(e, t) ==
  IF e = NoEvent THEN "WAITING" ELSE decisionTree(e, t)

\* ------------------------------------------------------------------- state
VARIABLES
  now,                   \* wall clock (Date.now(), new Date())
  pc,                    \* "init": first fetch outstanding; "running"; "error"
  hasRecordingsGlobal,   \* the document defines a global named `recordings`
  eventData, playbackMode, currentRecordingIndex,
  countdownInterval,     \* the countdown setInterval is live
  countdownTarget,       \* scheduledDate captured by the countdown callback
  followUpTimers,        \* pending 5-second setTimeout callbacks
  pollInterval,          \* the polling setInterval is live
  pollFrequency,         \* period the live polling interval was created with
  inflight,              \* bag of outstanding fetches (their continuations)
  visible,               \* `.state` elements that do not carry class hidden
  liveStreamExists,      \* element #live-stream is still in the document
  liveSrc, replaySrc,    \* src of #live-stream and of #replay-stream
  overlays,              \* elements created by the script that are in the document
  currentStreamPlayer,   \* a message listener is registered on window
  advanceCheckInterval,  \* the 1-second advance checker is live
  hasAdvanced, advRecordings, currentRecording,  \* closure of setupSequentialAdvance
  lastKnownTime, lastUpdateTimestamp,
  advances               \* cursor increments since detection was last set up

\* The worker's side (worker.ts): the rows of table `events` that the webhook
\* handler reads and writes, and the webhook requests that are between their
\* select and their update.
VARIABLES
  events,                \* live input id -> [status, streamstate] of its event
  webhooks,              \* requests that ran their select and await the update
  columnsResolve         \* the table has the columns the handler names

serverVars == <<events, webhooks, columnsResolve>>

pageVars ==
  <<eventData, playbackMode, currentRecordingIndex, countdownInterval, countdownTarget,
    followUpTimers, visible, liveStreamExists, liveSrc, replaySrc, overlays,
    currentStreamPlayer, advanceCheckInterval, hasAdvanced, advRecordings,
    currentRecording, lastKnownTime, lastUpdateTimestamp, advances>>

vars ==
  <<now, pc, hasRecordingsGlobal, serverVars, pollInterval, pollFrequency, inflight,
    pageVars>>

\* The module-level state of script.js and the part of the document it
\* touches, as one value; the handlers below map such a value to the next.
Page ==
  [eventData |-> eventData, playbackMode |-> playbackMode,
   currentRecordingIndex |-> currentRecordingIndex,
   countdownInterval |-> countdownInterval, countdownTarget |-> countdownTarget,
   followUpTimers |-> followUpTimers, visible |-> visible,
   liveStreamExists |-> liveStreamExists, liveSrc |-> liveSrc, replaySrc |-> replaySrc,
   overlays |-> overlays, currentStreamPlayer |-> currentStreamPlayer,
   advanceCheckInterval |-> advanceCheckInterval, hasAdvanced |-> hasAdvanced,
   advRecordings |-> advRecordings, currentRecording |-> currentRecording,
   lastKnownTime |-> lastKnownTime, lastUpdateTimestamp |-> lastUpdateTimestamp,
   advances |-> advances, threw |-> FALSE]

SetPage(p) ==
  /\ eventData' = p.eventData
  /\ playbackMode' = p.playbackMode
  /\ currentRecordingIndex' = p.currentRecordingIndex
  /\ countdownInterval' = p.countdownInterval
  /\ countdownTarget' = p.countdownTarget
  /\ followUpTimers' = p.followUpTimers
  /\ visible' = p.visible
  /\ liveStreamExists' = p.liveStreamExists
  /\ liveSrc' = p.liveSrc
  /\ replaySrc' = p.replaySrc
  /\ overlays' = p.overlays
  /\ currentStreamPlayer' = p.currentStreamPlayer
  /\ advanceCheckInterval' = p.advanceCheckInterval
  /\ hasAdvanced' = p.hasAdvanced
  /\ advRecordings' = p.advRecordings
  /\ currentRecording' = p.currentRecording
  /\ lastKnownTime' = p.lastKnownTime
  /\ lastUpdateTimestamp' = p.lastUpdateTimestamp
  /\ advances' = p.advances

Throw(p) == [p EXCEPT !.threw = TRUE]

NoRecording == [uid |-> "", created |-> 0, duration |-> 0, readyToStream |-> FALSE]

\* ------------------------------------------------------- countdown display
\* Variant: the expired countdown goes on ticking.
updateCountdown_KeepsTicking(p, targetDate, t) ==
  IF targetDate - t <= 0
    THEN [p EXCEPT !.followUpTimers = @ + 1]
    ELSE p

updateCountdown(p, targetDate, t) ==
  IF targetDate - t <= 0
    THEN [p EXCEPT !.countdownInterval = FALSE, !.followUpTimers = @ + 1]
    ELSE p

showCountdown(p, t) ==
  LET scheduledDate == p.eventData.scheduled_date
      armed == [p EXCEPT !.countdownInterval = TRUE, !.countdownTarget = scheduledDate]
      ticked == updateCountdown(armed, scheduledDate, t)
  IN  [ticked EXCEPT !.visible = @ \cup {"countdown"}]

showWaiting(p) ==
  [p EXCEPT !.countdownInterval = FALSE, !.visible = @ \cup {"countdown"}]

showEnded(p) ==
  [p EXCEPT !.countdownInterval = FALSE, !.visible = @ \cup {"countdown"}]

\* --------------------------------------------------------------- live view
showLive(p) ==
  LET liveInputId == p.eventData.live_input_id
  IN  IF liveInputId # <<>> /\ ~p.liveStreamExists
        THEN Throw(p)                        \* streamEl is null: streamEl.src
      ELSE
        LET loaded == IF liveInputId # <<>> /\ p.liveSrc # EmbedUrl(liveInputId[1])
                        THEN [p EXCEPT !.liveSrc = EmbedUrl(liveInputId[1])]
                        ELSE p
        IN  IF p.eventData.stream_state = "disconnected" /\ p.eventData.status = "live"
              THEN IF "processing-overlay" \in loaded.overlays
                     THEN [loaded EXCEPT !.visible = @ \cup {"live"}]
                   ELSE IF ~p.liveStreamExists THEN Throw(loaded)
                   ELSE [loaded EXCEPT !.overlays = @ \cup {"processing-overlay"},
                                       !.visible = @ \cup {"live"}]
              ELSE [loaded EXCEPT !.overlays = @ \ {"processing-overlay"},
                                  !.visible = @ \cup {"live"}]

showProcessing(p) ==
  IF ~p.liveStreamExists
    THEN Throw(p)                            \* getElementById('live-stream') is null
    ELSE [p EXCEPT !.liveStreamExists = FALSE, !.liveSrc = NoSrc,
                   !.overlays = @ \ {"processing-overlay"},
                   !.visible = @ \cup {"live"}]

\* ------------------------------------------------------ sequential advance
showAllRecordingsComplete(p) ==
  [p EXCEPT !.overlays = @ \cup {"completion-overlay"}]

advanceToNextRecording(p, recordings) ==
  LET q == [p EXCEPT !.currentRecordingIndex = @ + 1, !.advances = @ + 1]
  IN  IF q.currentRecordingIndex >= Len(recordings)
        THEN showAllRecordingsComplete(q)
        ELSE [q EXCEPT !.replaySrc = EmbedUrl(recordings[q.currentRecordingIndex + 1].uid)]

\* Variant: an advance neither latches nor cancels the detection.
stopDetection_Forgotten(p) == p

\* hasAdvanced = true; clearInterval(advanceCheckInterval);
\* window.removeEventListener('message', messageHandler)
stopDetection(p) ==
  [p EXCEPT !.hasAdvanced = TRUE, !.advanceCheckInterval = FALSE,
            !.currentStreamPlayer = FALSE]

setupSequentialAdvance(p, recordings, t) ==
  LET cleared == [p EXCEPT !.currentStreamPlayer = FALSE, !.advanceCheckInterval = FALSE]
  IN  IF p.currentRecordingIndex >= Len(recordings)
        THEN cleared
        ELSE [cleared EXCEPT !.currentRecording = recordings[p.currentRecordingIndex + 1],
                             !.advRecordings = recordings,
                             !.lastKnownTime = 0,
                             !.lastUpdateTimestamp = t,
                             !.hasAdvanced = FALSE,
                             !.advances = 0,
                             !.currentStreamPlayer = TRUE,
                             !.advanceCheckInterval = TRUE]

\* Messages the window may receive.
StreamOrigin == "https://customer-r5vkm8rpzqtdt9cz.cloudflarestream.com"
Origins == {StreamOrigin, "https://cloudflarestream.com.evil.example", "https://evil.example"}
OriginIncludesStream(o) == o \in {StreamOrigin, "https://cloudflarestream.com.evil.example"}
Positions == {0, 2}
Number(n) == [type |-> "number", num |-> n, flag |-> FALSE]
Bool(b) == [type |-> "boolean", num |-> 0, flag |-> b]
MessageData ==
  [messageType : {"propertyChange"}, property : {"currentTime"},
   value : {Number(n) : n \in Positions} \cup {Bool(TRUE)}]
  \cup [messageType : {"propertyChange"}, property : {"ended"}, value : {Bool(TRUE), Bool(FALSE)}]
  \cup [messageType : {"propertyChange", "other"}, property : {"volume", "ended"}, value : {Bool(TRUE)}]
Messages == [origin : Origins, data : MessageData]

messageHandler(p, event, t) ==
  IF ~OriginIncludesStream(event.origin) THEN p
  ELSE IF event.data.messageType # "propertyChange" THEN p
  ELSE
    LET data == event.data
        tracked ==
          IF data.property = "currentTime" /\ data.value.type = "number"
            THEN [p EXCEPT !.lastKnownTime = data.value.num, !.lastUpdateTimestamp = t]
            ELSE p
    IN  IF data.property = "ended" /\ data.value.type = "boolean" /\ data.value.flag = TRUE
          THEN IF ~tracked.hasAdvanced
                 THEN advanceToNextRecording(
                        stopDetection(tracked),
                        tracked.advRecordings)
                 ELSE tracked
          ELSE tracked

advanceCheck(p, t) ==
  IF p.hasAdvanced THEN [p EXCEPT !.advanceCheckInterval = FALSE]
  ELSE IF p.currentRecording.duration # 0 /\ p.lastKnownTime > 0
    THEN LET remainingTime == p.currentRecording.duration - p.lastKnownTime
             timeSinceLastUpdate == t - p.lastUpdateTimestamp
         IN  IF remainingTime <= NearEnd
               THEN advanceToNextRecording(
                      stopDetection(p), p.advRecordings)
             ELSE IF timeSinceLastUpdate > StuckSeconds /\ p.lastKnownTime > 0
                      /\ remainingTime < StuckRemaining
               THEN advanceToNextRecording(
                      stopDetection(p), p.advRecordings)
             ELSE p
  ELSE IF p.currentRecording.duration = 0
    THEN IF t - p.lastUpdateTimestamp > NoDurationTimeout
           THEN advanceToNextRecording(
                  stopDetection(p), p.advRecordings)
           ELSE p
  ELSE p

\* ------------------------------------------------------------ replay views
\* Variant: the first listed recording is taken, finalized or not.
showLastRecording_FirstListed(p) ==
  LET recordings == p.eventData.recordings
  IN  IF recordings = <<>> THEN [p EXCEPT !.visible = @ \cup {"replay"}]
      ELSE
        LET embedUrl == EmbedUrl(recordings[1].uid)
            loaded == IF p.replaySrc # embedUrl
                        THEN [p EXCEPT !.replaySrc = embedUrl] ELSE p
        IN  [loaded EXCEPT !.overlays = @ \cup {"waiting-banner"},
                           !.visible = @ \cup {"replay"}]

showLastRecording(p) ==
  LET recordings == SortRecordings(ReadyRecordings(p.eventData.recordings), TRUE)
  IN  IF recordings = <<>> /\ Len(p.eventData.recordings) > 0
        THEN showProcessing(p)
      ELSE
        LET embedUrl == EmbedUrl(recordings[1].uid)
            loaded == IF recordings # <<>> /\ p.replaySrc # embedUrl
                        THEN [p EXCEPT !.replaySrc = embedUrl] ELSE p
        IN  [loaded EXCEPT !.overlays = @ \cup {"waiting-banner"},
                           !.visible = @ \cup {"replay"}]

showSequentialPlayback(p, t, g) ==
  LET allRecordings == SortRecordings(ReadyRecordings(p.eventData.recordings), FALSE)
      reset == IF p.currentRecordingIndex >= Len(allRecordings)
                 THEN [p EXCEPT !.currentRecordingIndex = 0] ELSE p
      hasVideo == reset.currentRecordingIndex < Len(allRecordings)
      embedUrl == EmbedUrl(allRecordings[reset.currentRecordingIndex + 1].uid)
      started == IF hasVideo /\ reset.replaySrc # embedUrl
                   THEN setupSequentialAdvance([reset EXCEPT !.replaySrc = embedUrl],
                                               allRecordings, t)
                   ELSE reset
      loaded == [started EXCEPT !.overlays = @ \ {"waiting-banner"}]
  IN  IF ~g THEN Throw(loaded)               \* `recordings` is not defined
      ELSE [loaded EXCEPT !.visible = @ \cup {"replay"}]

showLimitExceeded(p) ==
  [p EXCEPT !.visible = {"limit-exceeded"}]

\* ---------------------------------------------------------------- updateUI
\* Variant: every refresh re-renders.
modeChanged_Always(p, newMode) == TRUE

modeChanged(p, newMode) == newMode # p.playbackMode

limitReached(e) == (isLive(e) \/ hasRecordings(e)) /\ e.limitExceeded

updateUI(p, t, g) ==
  IF limitReached(p.eventData)
    THEN IF "limit-exceeded" \notin p.visible
           THEN showLimitExceeded([p EXCEPT !.visible = {}])
           ELSE p
  ELSE
    LET newMode == determinePlaybackMode(p.eventData, t)
    IN  IF modeChanged(p, newMode)
          THEN LET q == [p EXCEPT !.currentStreamPlayer = FALSE,
                                  !.advanceCheckInterval = FALSE,
                                  !.playbackMode = newMode,
                                  !.visible = {}]
               IN  CASE newMode = "LIVE" -> showLive(q)
                     [] newMode = "PROCESSING" -> showProcessing(q)
                     [] newMode = "LAST_RECORDING" -> showLastRecording(q)
                     [] newMode = "SEQUENTIAL" -> showSequentialPlayback(q, t, g)
                     [] newMode = "COUNTDOWN" -> showCountdown(q, t)
                     [] newMode = "ENDED" -> showEnded(q)
                     [] OTHER -> showWaiting(q)
          ELSE p

\* ----------------------------------------------------------------- polling
pollFrequencyFor(e, mode) ==
  IF e.status = "live" \/ e.stream_state = "active" THEN PollLive
  ELSE IF mode = "LAST_RECORDING" THEN PollWaitingForResume
  ELSE PollOther

\* startPolling(): the previous interval is cleared, a new one is created.
startPolling(p) ==
  /\ pollInterval' = TRUE
  /\ pollFrequency' = pollFrequencyFor(p.eventData, p.playbackMode)

PollContinuation == [kind |-> "poll", previousState |-> eventData.status, previousMode |-> playbackMode]
FollowUpContinuation == [kind |-> "followup", previousState |-> "", previousMode |-> ""]

\* ------------------------------------------------------------------ actions
\* POST /api/events inserts a row without status and stream_state; the table
\* defaults are 'scheduled' and 'inactive' (supabase-schema.sql).
NewEvent == [status |-> "scheduled", streamstate |-> "inactive"]
StoredInputs == {"in1", "in2"}
CreatedEvents == [i \in StoredInputs |-> NewEvent]

\* The store while no webhook arrives. supabase-schema.sql names the columns
\* live_input_id and stream_state, not liveinputid and streamstate.
ServerAtRest ==
  /\ events = CreatedEvents
  /\ webhooks = {}
  /\ columnsResolve = FALSE

PageInit ==
  /\ now = 0
  /\ pc = "init"
  /\ hasRecordingsGlobal \in BOOLEAN
  /\ eventData = NoEvent
  /\ playbackMode = NoMode
  /\ currentRecordingIndex = 0
  /\ countdownInterval = FALSE
  /\ countdownTarget = 0
  /\ followUpTimers = 0
  /\ pollInterval = FALSE
  /\ pollFrequency = 0
  /\ inflight = EmptyBag
  /\ visible = {}
  /\ liveStreamExists = TRUE
  /\ liveSrc = NoSrc
  /\ replaySrc = NoSrc
  /\ overlays = {}
  /\ currentStreamPlayer = FALSE
  /\ advanceCheckInterval = FALSE
  /\ hasAdvanced = FALSE
  /\ advRecordings = <<>>
  /\ currentRecording = NoRecording
  /\ lastKnownTime = 0
  /\ lastUpdateTimestamp = 0
  /\ advances = 0

Init == PageInit /\ ServerAtRest

\* init() after fetchEvent() stored the response: updateUI(), startPolling(),
\* and showError() when one of them throws.
initRender(p) ==
  LET q == updateUI(p, now, hasRecordingsGlobal)
  IN  /\ SetPage(q)
      /\ IF q.threw
           THEN pc' = "error" /\ UNCHANGED <<pollInterval, pollFrequency>>
           ELSE pc' = "running" /\ startPolling(q)
      /\ UNCHANGED <<now, hasRecordingsGlobal, serverVars, inflight>>

InitFetchOk ==
  /\ pc = "init"
  /\ \E s \in SnapshotsAt(now) : initRender([Page EXCEPT !.eventData = s])

\* Variant: a failed first fetch is retried by the polling loop.
InitFetchFail_Retries ==
  /\ pc = "init"
  /\ pc' = "error"
  /\ pollInterval' = TRUE
  /\ pollFrequency' = PollOther
  /\ UNCHANGED <<now, hasRecordingsGlobal, serverVars, inflight, pageVars>>

InitFetchFail ==
  /\ pc = "init"
  /\ pc' = "error"
  /\ UNCHANGED <<now, hasRecordingsGlobal, serverVars, pollInterval, pollFrequency, inflight, pageVars>>

\* The polling interval fires: the callback records the previous state and
\* mode and suspends in fetchEvent().  A response arrives within one polling
\* period (30 s or more), so the fetch of the previous tick is not
\* outstanding any more; the fetch of a countdown follow-up may be.
PollTick ==
  /\ pollInterval
  /\ \A c \in BagToSet(inflight) : c.kind # "poll"
  /\ inflight' = inflight (+) SetToBag({PollContinuation})
  /\ UNCHANGED <<now, pc, hasRecordingsGlobal, serverVars, pollInterval, pollFrequency, pageVars>>

\* The interval callback from the point where fetchEvent() stored response s.
pollResponse(c, s) ==
    /\ c.kind = "poll"
    /\ inflight' = inflight (-) SetToBag({c})
    /\ LET q == updateUI([Page EXCEPT !.eventData = s], now, hasRecordingsGlobal)
       IN  /\ SetPage(q)
           /\ IF ~q.threw /\ (c.previousState # q.eventData.status
                              \/ c.previousMode # q.playbackMode)
                THEN startPolling(q)
                ELSE UNCHANGED <<pollInterval, pollFrequency>>
    /\ UNCHANGED <<now, pc, hasRecordingsGlobal, serverVars>>

PollFetchOk ==
  \E c \in BagToSet(inflight) : \E s \in SnapshotsAt(now) : pollResponse(c, s)

\* Variant: a rejected fetch is treated as fatal and ends the polling.
FetchFail_StopsPolling ==
  \E c \in BagToSet(inflight) :
    /\ inflight' = inflight (-) SetToBag({c})
    /\ pollInterval' = FALSE
    /\ UNCHANGED <<now, pc, hasRecordingsGlobal, serverVars, pollFrequency, pageVars>>

\* fetchEvent() rejects: the continuation is abandoned.
FetchFail ==
  \E c \in BagToSet(inflight) :
    /\ inflight' = inflight (-) SetToBag({c})
    /\ UNCHANGED <<now, pc, hasRecordingsGlobal, serverVars, pollInterval, pollFrequency, pageVars>>

CountdownTick ==
  /\ countdownInterval
  /\ SetPage(updateCountdown(Page, countdownTarget, now))
  /\ UNCHANGED <<now, pc, hasRecordingsGlobal, serverVars, pollInterval, pollFrequency, inflight>>

\* The 5-second timeout of an expired countdown fires and starts a fetch.
FollowUpFire ==
  /\ followUpTimers > 0
  /\ \A c \in BagToSet(inflight) : c.kind # "followup"
  /\ inflight' = inflight (+) SetToBag({FollowUpContinuation})
  /\ SetPage([Page EXCEPT !.followUpTimers = @ - 1])
  /\ UNCHANGED <<now, pc, hasRecordingsGlobal, serverVars, pollInterval, pollFrequency>>

FollowUpFetchOk ==
  \E c \in BagToSet(inflight) : \E s \in SnapshotsAt(now) :
    /\ c.kind = "followup"
    /\ inflight' = inflight (-) SetToBag({c})
    /\ SetPage(updateUI([Page EXCEPT !.eventData = s], now, hasRecordingsGlobal))
    /\ UNCHANGED <<now, pc, hasRecordingsGlobal, serverVars, pollInterval, pollFrequency>>

Message ==
  /\ currentStreamPlayer
  /\ \E event \in Messages : SetPage(messageHandler(Page, event, now))
  /\ UNCHANGED <<now, pc, hasRecordingsGlobal, serverVars, pollInterval, pollFrequency, inflight>>

AdvanceCheckTick ==
  /\ advanceCheckInterval
  /\ SetPage(advanceCheck(Page, now))
  /\ UNCHANGED <<now, pc, hasRecordingsGlobal, serverVars, pollInterval, pollFrequency, inflight>>

ClockTick ==
  /\ now < MaxNow
  /\ now' = now + 1
  /\ UNCHANGED <<pc, hasRecordingsGlobal, serverVars, pollInterval, pollFrequency, inflight, pageVars>>

Next ==
  \/ InitFetchOk
  \/ InitFetchFail
  \/ PollTick
  \/ PollFetchOk
  \/ FetchFail
  \/ CountdownTick
  \/ FollowUpFire
  \/ FollowUpFetchOk
  \/ Message
  \/ AdvanceCheckTick
  \/ ClockTick

Spec == Init /\ [][Next]_vars

\* ------------------------------------------- polling without a response time
\* setInterval does not wait for the callback of the previous tick: the
\* callback is async and fetch() has no timeout, so a tick may fire while
\* earlier fetches are outstanding.
PollTickUnawaited ==
  /\ pollInterval
  /\ BagCardinality(inflight) < MaxOutstanding
  /\ inflight' = inflight (+) SetToBag({PollContinuation})
  /\ UNCHANGED <<now, pc, hasRecordingsGlobal, serverVars, pollInterval, pollFrequency, pageVars>>

PollNext ==
  \/ InitFetchOk
  \/ InitFetchFail
  \/ PollTickUnawaited
  \/ PollFetchOk
  \/ FetchFail

PollSpec == Init /\ [][PollNext]_vars

\* ------------------------------------------------- broadcast with a pause
\* The ingest connection drops while the event keeps status live: the
\* snapshots of the event's life and the paused broadcast.
PausedLiveSnapshotsAt(t) ==
  {s \in AllSnapshotsAt(t) :
     /\ s.status = "live" /\ s.stream_state = "disconnected"
     /\ s.recordings = <<>> /\ ~s.limitExceeded}

LiveSnapshotsAt(t) == SnapshotsAt(t) \cup PausedLiveSnapshotsAt(t)

LivePollFetchOk ==
  \E c \in BagToSet(inflight) : \E s \in LiveSnapshotsAt(now) : pollResponse(c, s)

LiveNext ==
  \/ InitFetchOk
  \/ InitFetchFail
  \/ PollTick
  \/ LivePollFetchOk
  \/ FetchFail
  \/ ClockTick

LiveSpec == Init /\ [][LiveNext]_vars

\* ------------------------------------------------- first render, any input
\* init() from the point where fetchEvent() has stored the response, for
\* every shape of response: the resolver and the limit check of updateUI on
\* a fresh page.
RenderNow == TwoHours + TenMinutes
RenderAges == {0, TenMinutes - 1, TenMinutes, TenMinutes + 1, TwoHours - 1, TwoHours, TwoHours + 1}
RenderRecordingLists ==
  {<<>>}
  \cup {<<Recording(u, r)>> : u \in Uids, r \in BOOLEAN}
  \cup UNION {{<<Recording(u, r), Recording(v, q)>> : v \in Uids \ {u}, r \in BOOLEAN, q \in BOOLEAN} : u \in Uids}

RenderSnapshots ==
  [status : Statuses \cup {"cancelled"},
   stream_state : StreamStates \cup {"inactive", "finalized"},
   scheduled_date : {RenderNow - 1, RenderNow, RenderNow + 1},
   live_input_id : LiveInputs \cup {<<>>},
   last_stream_activity : {<<>>} \cup {<<RenderNow - a>> : a \in RenderAges},
   recordings : RenderRecordingLists, limitExceeded : BOOLEAN]

RenderInit ==
  /\ now = RenderNow
  /\ pc = "fetched"
  /\ hasRecordingsGlobal \in BOOLEAN
  /\ eventData \in RenderSnapshots
  /\ playbackMode = NoMode
  /\ currentRecordingIndex = 0
  /\ countdownInterval = FALSE
  /\ countdownTarget = 0
  /\ followUpTimers = 0
  /\ pollInterval = FALSE
  /\ pollFrequency = 0
  /\ inflight = EmptyBag
  /\ visible = {}
  /\ liveStreamExists = TRUE
  /\ liveSrc = NoSrc
  /\ replaySrc = NoSrc
  /\ overlays = {}
  /\ currentStreamPlayer = FALSE
  /\ advanceCheckInterval = FALSE
  /\ hasAdvanced = FALSE
  /\ advRecordings = <<>>
  /\ currentRecording = NoRecording
  /\ lastKnownTime = 0
  /\ lastUpdateTimestamp = 0
  /\ advances = 0
  /\ ServerAtRest

FirstRender ==
  /\ pc = "fetched"
  /\ initRender(Page)

RenderNext == FirstRender

RenderSpec == RenderInit /\ [][RenderNext]_vars

\* ------------------------------------------------- one segment, any length
\* An ended event with one ready recording whose duration is unknown (0),
\* one second, or three seconds: rendered at time 0, then watched for up to
\* MaxElapsed seconds while the player posts messages and the checker ticks.
SegmentDurations == {0, 1, 3}
SegmentRecording(d) == [uid |-> "A", created |-> 1, duration |-> d, readyToStream |-> TRUE]
SegmentSnapshots ==
  [status : {"ended"}, stream_state : {"disconnected"}, scheduled_date : SchedDates,
   live_input_id : LiveInputs, last_stream_activity : {<<0>>},
   recordings : {<<SegmentRecording(d)>> : d \in SegmentDurations},
   limitExceeded : {FALSE}]

SegmentInit ==
  /\ now = 0
  /\ pc = "fetched"
  /\ hasRecordingsGlobal \in BOOLEAN
  /\ eventData \in SegmentSnapshots
  /\ playbackMode = NoMode
  /\ currentRecordingIndex = 0
  /\ countdownInterval = FALSE
  /\ countdownTarget = 0
  /\ followUpTimers = 0
  /\ pollInterval = FALSE
  /\ pollFrequency = 0
  /\ inflight = EmptyBag
  /\ visible = {}
  /\ liveStreamExists = TRUE
  /\ liveSrc = NoSrc
  /\ replaySrc = NoSrc
  /\ overlays = {}
  /\ currentStreamPlayer = FALSE
  /\ advanceCheckInterval = FALSE
  /\ hasAdvanced = FALSE
  /\ advRecordings = <<>>
  /\ currentRecording = NoRecording
  /\ lastKnownTime = 0
  /\ lastUpdateTimestamp = 0
  /\ advances = 0
  /\ ServerAtRest

\* Time passes once the page is rendered.
SegmentClockTick ==
  /\ pc # "fetched"
  /\ now < MaxElapsed
  /\ now' = now + 1
  /\ UNCHANGED <<pc, hasRecordingsGlobal, serverVars, pollInterval, pollFrequency, inflight, pageVars>>

SegmentNext ==
  \/ FirstRender
  \/ Message
  \/ AdvanceCheckTick
  \/ SegmentClockTick

\* The checker runs every second for as long as its interval exists.
SegmentSpec == SegmentInit /\ [][SegmentNext]_vars /\ WF_vars(AdvanceCheckTick)

\* ------------------------------------------------------------- properties
\* What the page shows: the limit display when it is visible, else the view
\* of the mode the controller rendered last.
Rendered == IF "limit-exceeded" \in visible THEN "LIMIT_EXCEEDED" ELSE playbackMode

\* The mode a refresh resolves for a snapshot.
ResolvedMode(e, t) == IF limitReached(e) THEN "LIMIT_EXCEEDED" ELSE determinePlaybackMode(e, t)

ReadyCount == Len(ReadyRecordings(eventData.recordings))
FirstRenderDone == pc \in {"running", "error"}

EndedDelivered ==
  /\ currentStreamPlayer
  /\ \E event \in Messages :
       /\ event.origin = StreamOrigin
       /\ event.data = [messageType |-> "propertyChange", property |-> "ended", value |-> Bool(TRUE)]
       /\ SetPage(messageHandler(Page, event, now))
  /\ UNCHANGED <<now, pc, hasRecordingsGlobal, serverVars, pollInterval, pollFrequency, inflight>>

NearEndDue ==
  /\ currentRecording.duration # 0
  /\ lastKnownTime > 0
  /\ currentRecording.duration - lastKnownTime <= NearEnd

\* C1: the cursor is incremented at most once per loaded segment, and when
\* the near-end tick and an "ended" message are due for the same segment,
\* whichever runs first increments the cursor by one and disarms both paths.
C1_OneAdvancePerSegment ==
  /\ [](advances <= 1 /\ (hasAdvanced <=> advances = 1))
  /\ [][(currentStreamPlayer /\ advanceCheckInterval /\ NearEndDue
           /\ (AdvanceCheckTick \/ EndedDelivered))
        => (/\ currentRecordingIndex' = currentRecordingIndex + 1
            /\ advances' = 1
            /\ ~currentStreamPlayer'
            /\ ~advanceCheckInterval')]_vars

C1_Witness ==
  /\ hasAdvanced
  /\ advances = 1
  /\ NearEndDue
  /\ currentRecordingIndex = 1
  /\ ~currentStreamPlayer
  /\ ~advanceCheckInterval

\* A step in which the continuation of a fetch ran (or was abandoned).
FetchCompleted == BagCardinality(inflight') < BagCardinality(inflight)

\* C2: a refresh whose resolved mode is the rendered mode leaves the player,
\* its loaded asset, the advance detection and the cursor as they were.
C2_SameModeRefreshIsNoOp ==
  [][(FetchCompleted /\ ResolvedMode(eventData', now) = Rendered)
     => UNCHANGED <<visible, liveStreamExists, liveSrc, replaySrc, overlays,
                    currentStreamPlayer, advanceCheckInterval, hasAdvanced,
                    advRecordings, currentRecording, lastKnownTime,
                    lastUpdateTimestamp, advances, currentRecordingIndex,
                    playbackMode>>]_vars

\* SEQUENTIAL with detection armed for a list that the stored snapshot no
\* longer has: a refresh was applied after the segment was loaded.
C2_Witness ==
  /\ Rendered = "SEQUENTIAL"
  /\ currentStreamPlayer
  /\ advanceCheckInterval
  /\ advRecordings # SortRecordings(ReadyRecordings(eventData.recordings), FALSE)
  /\ replaySrc = EmbedUrl(currentRecording.uid)

\* C3: the telemetry listener and the advance checker are armed only while
\* the page shows SEQUENTIAL.
C3_DetectionOnlyInSequential ==
  (currentStreamPlayer \/ advanceCheckInterval) => Rendered = "SEQUENTIAL"

\* C4: the countdown timer is armed only while the page shows COUNTDOWN.
C4_CountdownTimerOnlyInCountdown ==
  countdownInterval => Rendered = "COUNTDOWN"

\* C5: while a segment plays in SEQUENTIAL the cursor is at most the number
\* of ready recordings of the stored snapshot minus one.
C5_CursorWithinReadySet ==
  (Rendered = "SEQUENTIAL" /\ replaySrc # NoSrc /\ "completion-overlay" \notin overlays)
    => currentRecordingIndex <= ReadyCount - 1

\* C6: entering SEQUENTIAL from another mode starts at cursor 0.
C6_FreshEntryStartsAtZero ==
  [][(playbackMode # "SEQUENTIAL" /\ playbackMode' = "SEQUENTIAL")
     => currentRecordingIndex' = 0]_vars

\* C7: a live, active snapshot without limitExceeded resolves to LIVE,
\* whatever its schedule, activity and recordings.
C7_LiveActiveIsLive ==
  (FirstRenderDone /\ eventData.status = "live" /\ eventData.stream_state = "active"
     /\ ~eventData.limitExceeded)
    => playbackMode = "LIVE"

C7_Witness ==
  /\ FirstRenderDone
  /\ eventData.status = "live" /\ eventData.stream_state = "active"
  /\ ~eventData.limitExceeded
  /\ now < eventData.scheduled_date
  /\ ReadyCount = 2
  /\ eventData.last_stream_activity = <<RenderNow - TwoHours>>
  /\ playbackMode = "LIVE"
  /\ "live" \in visible

\* C8: an ended snapshot without limitExceeded resolves to SEQUENTIAL when a
\* ready recording exists and to ENDED when none is ready.
C8_EndedByReadyRecordings ==
  (FirstRenderDone /\ eventData.status = "ended" /\ ~eventData.limitExceeded)
    => playbackMode = (IF ReadyCount >= 1 THEN "SEQUENTIAL" ELSE "ENDED")

\* C9: after a refresh the limit display is shown exactly when limitExceeded
\* is set and the snapshot is live-active or has a ready recording.
C9_LimitShownIffLiveOrReady ==
  FirstRenderDone
    => (Rendered = "LIMIT_EXCEEDED"
          <=> (eventData.limitExceeded /\ (isLive(eventData) \/ ReadyCount >= 1)))

\* C10: a ready snapshot with no ready recording resolves to PROCESSING when
\* the last stream activity is less than ten minutes old and to WAITING when
\* it is older or absent.
C10_ReadyWithoutReadyRecordings ==
  (FirstRenderDone /\ eventData.status = "ready" /\ ReadyCount = 0
     /\ ~eventData.limitExceeded)
    => LET activity == eventData.last_stream_activity
       IN  IF activity # <<>> /\ now - activity[1] < TenMinutes
             THEN playbackMode = "PROCESSING"
           ELSE IF activity # <<>> /\ now - activity[1] = TenMinutes
             THEN playbackMode \in {"PROCESSING", "WAITING"}
           ELSE playbackMode = "WAITING"

\* C11: a ready snapshot with at least one ready recording resolves to
\* LAST_RECORDING when the last stream activity is less than two hours old
\* and exactly one recording is ready, to SEQUENTIAL when it is less than two
\* hours old and more than one is ready, and to SEQUENTIAL when the activity
\* is two hours old or more.
C11_ReadyWithReadyRecordings ==
  (FirstRenderDone /\ eventData.status = "ready" /\ ReadyCount >= 1
     /\ ~eventData.limitExceeded /\ eventData.last_stream_activity # <<>>)
    => IF now - eventData.last_stream_activity[1] < TwoHours
         THEN playbackMode = (IF ReadyCount = 1 THEN "LAST_RECORDING" ELSE "SEQUENTIAL")
         ELSE playbackMode = "SEQUENTIAL"

\* One of two listed recordings is ready, activity one second short of two
\* hours: the single ready recording is shown.
C11_Witness ==
  /\ FirstRenderDone
  /\ eventData.status = "ready" /\ ~eventData.limitExceeded
  /\ ReadyCount = 1 /\ Len(eventData.recordings) = 2
  /\ eventData.last_stream_activity = <<RenderNow - (TwoHours - 1)>>
  /\ playbackMode = "LAST_RECORDING"
  /\ "replay" \in visible

\* C12: a snapshot that is neither live and active, nor ended, nor ready
\* resolves to COUNTDOWN before the scheduled instant and to WAITING at the
\* scheduled instant and after it.
C12_CountdownUntilScheduled ==
  (FirstRenderDone /\ ~isLive(eventData) /\ eventData.status \notin {"ended", "ready"}
     /\ ~eventData.limitExceeded)
    => playbackMode = (IF now < eventData.scheduled_date THEN "COUNTDOWN" ELSE "WAITING")

C12_Witness ==
  /\ FirstRenderDone
  /\ eventData.status = "scheduled" /\ ~eventData.limitExceeded
  /\ eventData.scheduled_date = now
  /\ playbackMode = "WAITING"
  /\ ~countdownInterval
  /\ "countdown" \in visible

\* The polling period the specification assigns to a playback mode.
CadenceOf(mode) ==
  IF mode = "LIVE" THEN PollLive
  ELSE IF mode = "LAST_RECORDING" THEN PollWaitingForResume
  ELSE PollOther

\* C13: when the polling timer is armed its period is 120 s in LIVE, 30 s in
\* LAST_RECORDING and 60 s in every other mode, for every snapshot.
C13_PollPeriodFollowsMode ==
  (pc = "running" /\ pollInterval /\ ~eventData.limitExceeded)
    => pollFrequency = CadenceOf(playbackMode)

\* A step in which the callback of a polling tick ran to its end: the
\* response was stored and the view that was rendered last is on display.
PollTickCompleted == PollFetchOk /\ visible' # {}

\* C14: after every completed poll tick the armed period is the cadence of
\* the current mode, also when the mode was changed between two ticks by the
\* follow-up fetch of the countdown.  Only ticks after which the period
\* computed by startPolling() is the cadence of the mode are considered, on
\* a page whose sequential view renders without an exception.
C14_PeriodCurrentAfterPollTick ==
  [][(PollTickCompleted /\ hasRecordingsGlobal
        /\ pollFrequencyFor(eventData', playbackMode') = CadenceOf(playbackMode'))
     => pollFrequency' = CadenceOf(playbackMode')]_vars

\* Fetches of polling ticks whose response is outstanding.
RECURSIVE PollFetchesIn(_)
PollFetchesIn(cs) ==
  IF cs = {} THEN 0
  ELSE LET c == CHOOSE x \in cs : TRUE
       IN  (IF c.kind = "poll" THEN CopiesIn(c, inflight) ELSE 0) + PollFetchesIn(cs \ {c})

OutstandingPollFetches == PollFetchesIn(BagToSet(inflight))

\* C15: a poll tick never starts while the fetch of a previous tick is
\* outstanding: at most one fetch of a poll tick is in flight.
C15_OnePollTickInFlight ==
  OutstandingPollFetches <= 1

\* A step in which the fetch of a polling tick was rejected.
PollFetchFailed == FetchFail /\ OutstandingPollFetches' < OutstandingPollFetches

\* C16: a rejected fetch of a poll tick leaves the stored snapshot, the
\* mode, the cursor and everything on display as they were, and the polling
\* timer armed with its period.
C16_FailedPollTickIsSkipped ==
  [][PollFetchFailed
     => (/\ UNCHANGED <<eventData, playbackMode, currentRecordingIndex, visible,
                        liveStreamExists, liveSrc, replaySrc, overlays,
                        currentStreamPlayer, advanceCheckInterval, pc>>
         /\ pollInterval /\ pollInterval'
         /\ UNCHANGED pollFrequency)]_vars

\* A view is on display, the timer is armed and two ticks wait for their
\* responses, the older one started before the mode on display was entered:
\* either response may be rejected.
C16_Witness ==
  /\ pc = "running" /\ pollInterval
  /\ visible # {}
  /\ OutstandingPollFetches = 2
  /\ \E c \in BagToSet(inflight) : c.kind = "poll" /\ c.previousMode # playbackMode

\* C17: after a failed first fetch no mode is rendered, the polling timer is
\* not armed, and no fetch is outstanding or scheduled, in every later state.
C17_InitialFetchFailureIsTerminal ==
  (pc = "error" /\ eventData = NoEvent)
    => (/\ playbackMode = NoMode
        /\ visible = {}
        /\ ~pollInterval
        /\ inflight = EmptyBag
        /\ followUpTimers = 0
        /\ ~countdownInterval)

C17_Witness ==
  /\ pc = "error"
  /\ eventData = NoEvent
  /\ playbackMode = NoMode
  /\ ~pollInterval
  /\ inflight = EmptyBag

\* C18: when the countdown reaches zero the countdown timer stops and one
\* follow-up fetch is scheduled; a follow-up fetch is scheduled by nothing
\* else, and never more than one in a step.
C18_OneFollowUpPerExpiry ==
  [][/\ (CountdownTick /\ countdownTarget - now <= 0)
          => (~countdownInterval' /\ followUpTimers' = followUpTimers + 1)
     /\ (followUpTimers' > followUpTimers)
          => (/\ followUpTimers' = followUpTimers + 1
              /\ countdownInterval /\ ~countdownInterval'
              /\ countdownTarget - now <= 0)]_vars

\* The countdown expired while COUNTDOWN was on display: its timer is
\* stopped and the one follow-up fetch is pending.
C18_Witness ==
  /\ playbackMode = "COUNTDOWN"
  /\ "countdown" \in visible
  /\ countdownTarget - now <= 0
  /\ ~countdownInterval
  /\ followUpTimers = 1
  /\ \A c \in BagToSet(inflight) : c.kind # "followup"

\* Messages the advance detection has to ignore: from another origin than
\* the player's, without the property-change structure, or reporting
\* neither a numeric currentTime nor ended = true.
Ignorable(event) ==
  \/ event.origin # StreamOrigin
  \/ event.data.messageType # "propertyChange"
  \/ ~ \/ (event.data.property = "currentTime" /\ event.data.value.type = "number")
        \/ (event.data.property = "ended" /\ event.data.value = Bool(TRUE))

IgnorableDelivered ==
  /\ currentStreamPlayer
  /\ \E event \in Messages :
       /\ Ignorable(event)
       /\ SetPage(messageHandler(Page, event, now))
  /\ UNCHANGED <<now, pc, hasRecordingsGlobal, serverVars, pollInterval, pollFrequency, inflight>>

\* C19: a message that is to be ignored leaves the cursor, the last known
\* position and its timestamp, the advance latch and the armed detection
\* unchanged.
C19_ForeignMessagesIgnored ==
  [][IgnorableDelivered
     => UNCHANGED <<currentRecordingIndex, lastKnownTime, lastUpdateTimestamp,
                    hasAdvanced, currentStreamPlayer, advanceCheckInterval>>]_vars

\* C20: after an advance that does not exhaust the list the next segment is
\* loaded and detection is restarted for it: listener and checker armed,
\* last known position 0, latch clear.
C20_DetectionRestartedAfterAdvance ==
  [][(currentRecordingIndex' = currentRecordingIndex + 1
        /\ currentRecordingIndex' < Len(advRecordings))
     => (/\ replaySrc' = EmbedUrl(advRecordings[currentRecordingIndex' + 1].uid)
         /\ currentStreamPlayer'
         /\ advanceCheckInterval'
         /\ lastKnownTime' = 0
         /\ ~hasAdvanced')]_vars

\* ------------------------------------------------ sequential playback, fair
\* The page with its polling, the player's messages, the advance checker
\* and the clock.  The player reports the end of what it plays for as long
\* as somebody listens, and the checker runs every second for as long as its
\* interval exists; nothing is assumed about the polling.
SeqNext ==
  \/ InitFetchOk
  \/ InitFetchFail
  \/ PollTick
  \/ PollFetchOk
  \/ FetchFail
  \/ Message
  \/ AdvanceCheckTick
  \/ ClockTick

SeqSpec ==
  /\ Init /\ [][SeqNext]_vars
  /\ SF_vars(EndedDelivered)
  /\ WF_vars(AdvanceCheckTick)

\* C21: sequential playback that was started reaches the "all complete"
\* sub-state, unless a refresh takes the page out of SEQUENTIAL.
C21_SequentialRunsToCompletion ==
  (playbackMode = "SEQUENTIAL" /\ currentStreamPlayer /\ advanceCheckInterval)
    ~> ("completion-overlay" \in overlays \/ Rendered # "SEQUENTIAL")

\* A step in which a response was stored and updateUI() ran on it.
Refreshed == PollFetchOk \/ FollowUpFetchOk

\* C22: after a refresh whose snapshot has limitExceeded false the limit
\* display is not on screen.
C22_LimitDisplayFollowsSnapshot ==
  [][(Refreshed /\ ~eventData'.limitExceeded) => "limit-exceeded" \notin visible']_vars

\* C23: when LIVE is entered with a live input id the live view is visible
\* and its player is pointed at the embed URL of that id.
C23_LiveEntryShowsPlayer ==
  [][(playbackMode # "LIVE" /\ playbackMode' = "LIVE" /\ eventData'.live_input_id # <<>>)
     => (/\ "live" \in visible'
         /\ liveStreamExists'
         /\ liveSrc' = EmbedUrl(eventData'.live_input_id[1]))]_vars

\* C24: in LIVE, a refresh whose snapshot still has status live but a
\* disconnected stream keeps the page in LIVE with the same player and its
\* loaded asset, and shows the processing overlay.
C24_LivePauseKeepsPlayer ==
  [][(playbackMode = "LIVE" /\ "live" \in visible /\ LivePollFetchOk
        /\ eventData'.status = "live" /\ eventData'.stream_state = "disconnected"
        /\ ~eventData'.limitExceeded)
     => (/\ playbackMode' = "LIVE"
         /\ "live" \in visible'
         /\ liveStreamExists' /\ liveSrc' = liveSrc
         /\ "processing-overlay" \in overlays')]_vars

\* C25: with the checker armed for a segment whose duration is known, a
\* last known position within one second of the duration leads to an
\* advance, also when no position was reported yet.
C25_NearEndAdvances ==
  (advanceCheckInterval /\ ~hasAdvanced /\ currentRecording.duration # 0
     /\ currentRecording.duration - lastKnownTime <= NearEnd)
    ~> (hasAdvanced \/ currentRecording.duration - lastKnownTime > NearEnd)

\* C26: with the checker armed for a segment whose duration is unknown,
\* more than 120 seconds since the segment was started (at time 0) lead to
\* an advance, whether or not positions were reported in between.
C26_TimeoutSinceSegmentStart ==
  (advanceCheckInterval /\ ~hasAdvanced /\ currentRecording.duration = 0
     /\ now - 0 > NoDurationTimeout)
    ~> hasAdvanced

\* The ready recordings of the stored snapshot, oldest first.
ReadyOldestFirst == SortRecordings(ReadyRecordings(eventData.recordings), FALSE)

\* C27: entering SEQUENTIAL with a ready recording ends with the replay view
\* visible, the recording at the cursor of the oldest-first ready list
\* loaded and advance detection started for it.
C27_SequentialEntryShowsReplay ==
  (FirstRenderDone /\ playbackMode = "SEQUENTIAL" /\ ReadyCount >= 1
     /\ ~eventData.limitExceeded)
    => (/\ "replay" \in visible
        /\ currentRecordingIndex < ReadyCount
        /\ replaySrc = EmbedUrl(ReadyOldestFirst[currentRecordingIndex + 1].uid)
        /\ currentStreamPlayer /\ advanceCheckInterval)

\* C28: a replay mode entered without a ready recording shows the waiting
\* or the processing display, never the replay view (on a page whose
\* sequential view renders without an exception).
C28_NoReadyRecordingFallsBack ==
  (FirstRenderDone /\ playbackMode \in {"SEQUENTIAL", "LAST_RECORDING"}
     /\ ReadyCount = 0 /\ ~eventData.limitExceeded /\ hasRecordingsGlobal)
    => (/\ "replay" \notin visible
        /\ ("countdown" \in visible \/ "live" \in visible))

\* C29: entering LAST_RECORDING loads the ready recording that was created
\* last, whatever the order of the list and whatever is listed that is not
\* ready, and shows the banner of the paused stream.
C29_LastRecordingIsNewestReady ==
  (FirstRenderDone /\ playbackMode = "LAST_RECORDING" /\ ReadyCount >= 1
     /\ ~eventData.limitExceeded)
    => (/\ \E i \in 1..Len(eventData.recordings) :
             /\ eventData.recordings[i].readyToStream
             /\ \A j \in 1..Len(eventData.recordings) :
                  eventData.recordings[j].readyToStream
                    => eventData.recordings[j].created <= eventData.recordings[i].created
             /\ replaySrc = EmbedUrl(eventData.recordings[i].uid)
        /\ "replay" \in visible
        /\ "waiting-banner" \in overlays)

\* A newer recording that is not ready is listed before the ready one.
C29_Witness ==
  /\ FirstRenderDone
  /\ playbackMode = "LAST_RECORDING"
  /\ eventData.recordings = <<Recording("B", FALSE), Recording("A", TRUE)>>
  /\ replaySrc = EmbedUrl("A")
  /\ "replay" \in visible
  /\ "waiting-banner" \in overlays

\* ------------------------------------------------- worker.ts: stream webhooks
\* POST /api/webhooks/cloudflare. A request runs its select, awaits, and then
\* runs its update; the worker serves other requests in between.
MaxWebhooks == 1                               \* requests handled at a time
NotifiedInputs == StoredInputs \cup {"in3"}     \* no event was created for in3
Null == <<>>                                   \* `data` of a select without a row

\* .from('events').select(...).eq('liveinputid', liveInputId).single(): the
\* row (as a one-element sequence), or null when no row matches or the column
\* does not resolve.
selectEvent(liveInputId) ==
  IF columnsResolve /\ liveInputId \in DOMAIN events THEN <<events[liveInputId]>> ELSE Null

Request(eventType, liveInputId, event) ==
  [eventType |-> eventType, liveInputUID |-> liveInputId, event |-> event]

\* live_input.connected, up to the select of 'id, slug, status'.
WebhookConnected ==
  \E liveInputId \in NotifiedInputs :
    LET event == selectEvent(liveInputId) IN
    /\ Cardinality(webhooks) < MaxWebhooks
    /\ webhooks' = webhooks \cup
         {Request("live_input.connected", liveInputId,
                  IF event = Null THEN Null ELSE <<event[1].status>>)}
    /\ UNCHANGED <<events, columnsResolve>>
    /\ UNCHANGED <<now, pc, hasRecordingsGlobal, pollInterval, pollFrequency, inflight, pageVars>>

\* live_input.connected, from `if (event && event.status !== 'live')` on: the
\* update runs only when the status read by the select was not live.
connectedUpdate(r) ==
  IF r.event # Null /\ r.event[1] # "live"
    THEN [events EXCEPT ![r.liveInputUID] = [status |-> "live", streamstate |-> "active"]]
    ELSE events

WebhookConnectedDone ==
  \E r \in webhooks :
    /\ r.eventType = "live_input.connected"
    /\ events' = connectedUpdate(r)
    /\ webhooks' = webhooks \ {r}
    /\ UNCHANGED columnsResolve
    /\ UNCHANGED <<now, pc, hasRecordingsGlobal, pollInterval, pollFrequency, inflight, pageVars>>

\* live_input.disconnected, up to the select of 'id, slug'.
WebhookDisconnected ==
  \E liveInputId \in NotifiedInputs :
    LET event == selectEvent(liveInputId) IN
    /\ Cardinality(webhooks) < MaxWebhooks
    /\ webhooks' = webhooks \cup
         {Request("live_input.disconnected", liveInputId,
                  IF event = Null THEN Null ELSE <<"row">>)}
    /\ UNCHANGED <<events, columnsResolve>>
    /\ UNCHANGED <<now, pc, hasRecordingsGlobal, pollInterval, pollFrequency, inflight, pageVars>>

\* live_input.disconnected, from `if (event)` on: only streamstate is written.
disconnectedUpdate(r) ==
  IF r.event # Null
    THEN [events EXCEPT ![r.liveInputUID].streamstate = "disconnected"]
    ELSE events

WebhookDisconnectedDone ==
  \E r \in webhooks :
    /\ r.eventType = "live_input.disconnected"
    /\ events' = disconnectedUpdate(r)
    /\ webhooks' = webhooks \ {r}
    /\ UNCHANGED columnsResolve
    /\ UNCHANGED <<now, pc, hasRecordingsGlobal, pollInterval, pollFrequency, inflight, pageVars>>

WebhookInit ==
  /\ PageInit
  /\ events = CreatedEvents
  /\ webhooks = {}
  /\ columnsResolve \in BOOLEAN

WebhookNext ==
  \/ WebhookConnected
  \/ WebhookConnectedDone
  \/ WebhookDisconnected
  \/ WebhookDisconnectedDone

WebhookSpec == WebhookInit /\ [][WebhookNext]_vars

\* A connected notification for live input i finishes in this step, and it
\* was the only request the worker was handling.
ConnectedProcessed(i) ==
  /\ WebhookConnectedDone
  /\ webhooks = {Request("live_input.connected", i, <<events[i].status>>)}
  /\ webhooks' = {}

\* C30: once a live_input.connected notification for an existing event has
\* been processed, the event has status live and stream state active,
\* whatever notifications were processed before it.
C30_ConnectedMeansLiveActive ==
  [][\A i \in StoredInputs :
       (columnsResolve /\ ConnectedProcessed(i))
         => events'[i] = [status |-> "live", streamstate |-> "active"]]_vars

====
